---- MODULE Spec2Model ----
(***************************************************************************)
(* Character simulator (src/src/classes.py, src/src/util.py).              *)
(*                                                                         *)
(* Two specifications over one set of variables:                           *)
(*   SpecChoose  ASIRecord.choose_stats / perform_asi as functions of      *)
(*               their arguments, the arguments drawn from bounded sets;   *)
(*   Spec        the life of one Character: construction (score            *)
(*               generation, racial bonuses, racial ASI loop) followed by  *)
(*               level steps (LevelRecord construction).                   *)
(***************************************************************************)
EXTENDS Integers, Sequences, FiniteSets

VARIABLES
    pc,            \* position of the running call
    err,           \* exception raised by the running call ("none" if none)
    stat_focus,    \* Character.stat_focus / choose_stats argument
    stat_select,   \* Character.stat_select
    hp_select,     \* Character.hp_select
    asi_select,    \* Character.asi_select / choose_stats argument `method`
    race,          \* Character.race, Character.subrace
    stats,         \* Character.stats / choose_stats argument `cur_stats`
    old_stats,     \* the scores before the last ASI application
    stat_opts,     \* choose_stats argument `stat_opts` of the last call
    retval,        \* choose_stats local `retval` / the caller's `choices`
    asi_i,         \* racial ASI loop counter `i`
    level,         \* Character.level
    levels,        \* Character.levels
    level_history, \* Character.level_history
    rec,           \* the LevelRecord under construction
    drawn_from,    \* the random streams drawn from on behalf of the character
    scores,        \* Character.__init__ local `scores` (<<>> outside of it)
    caller_stats   \* the dict the caller of perform_asi handed in as cur_stats

vars == <<pc, err, stat_focus, stat_select, hp_select, asi_select, race, stats,
          old_stats, stat_opts, retval, asi_i, level, levels, level_history,
          rec, drawn_from, scores, caller_stats>>

-----------------------------------------------------------------------------
(* Enumerations and fixed names                                            *)

stat_names == <<"Str", "Dex", "Con", "Int", "Wis", "Cha">>

Stat == {stat_names[i] : i \in DOMAIN stat_names}

StatSelection == <<"ROLL_4D6_DROP_ONE", "STANDARD_ARRAY", "ROLL_3D6", "RANDOM">>

HPSelection == <<"ROLL_HP", "TAKE_AVG", "RANDOM">>

ASISelection == <<"STRICT_FOCUS", "FOCUS_ODD_TO_EVEN", "FOCUS_NON_NEG_MOD", "RANDOM">>

Members(seq) == {seq[i] : i \in DOMAIN seq}

\* list.count(x)
Count(seq, x) == Cardinality({i \in DOMAIN seq : seq[i] = x})

\* stat_opts=None, and a list given for stat_opts
NoOpts == [is_none |-> TRUE, list |-> <<>>]

OptsList(l) == [is_none |-> FALSE, list |-> l]

-----------------------------------------------------------------------------
(* ASIRecord.choose_stats                                                  *)

\* `stat_opts is not None and stat not in stat_opts`: the stat is skipped
NotInOptsIgnoringList(stat, opts) == FALSE

NotInOpts(stat, opts) == (~opts.is_none) /\ stat \notin Members(opts.list)

\* One point for a stat below 20, never the same stat twice in one turn
FocusBodySinglePoint(stat, cur_stats, rv) ==
    IF cur_stats[stat] < 20 THEN Append(rv, stat) ELSE rv

\* The body of the focus-order loop for one stat that passed the stat_opts test
FocusBody(stat, cur_stats, rv) ==
    IF cur_stats[stat] < 20
    THEN LET diff_from_20 == 20 - cur_stats[stat] + Count(rv, stat)
         IN  IF diff_from_20 >= 2
             THEN LET r1 == Append(rv, stat)
                  IN  IF Len(r1) = 1 THEN Append(r1, stat) ELSE r1
             ELSE IF diff_from_20 = 1 THEN Append(rv, stat) ELSE rv
    ELSE rv

\* for stat in stat_focus: ... (focus order, up to 20), from index i on
RECURSIVE FocusLoop(_, _, _, _, _)
FocusLoop(i, focus, cur_stats, opts, rv) ==
    IF i > Len(focus) THEN rv
    ELSE IF NotInOpts(focus[i], opts)
         THEN FocusLoop(i + 1, focus, cur_stats, opts, rv)
         ELSE LET r1 == FocusBody(focus[i], cur_stats, rv)
              IN  IF Len(r1) = 2 THEN r1
                  ELSE FocusLoop(i + 1, focus, cur_stats, opts, r1)

\* First pass of FOCUS_ODD_TO_EVEN: odd scores below 20, one point each
RECURSIVE OddLoop(_, _, _, _, _)
OddLoop(i, focus, cur_stats, opts, rv) ==
    IF i > Len(focus) THEN rv
    ELSE IF NotInOpts(focus[i], opts) \/ cur_stats[focus[i]] >= 20
         THEN OddLoop(i + 1, focus, cur_stats, opts, rv)
         ELSE LET r1 == IF cur_stats[focus[i]] % 2 = 1
                        THEN Append(rv, focus[i]) ELSE rv
              IN  IF Len(r1) = 2 THEN r1
                  ELSE OddLoop(i + 1, focus, cur_stats, opts, r1)

\* The body of the first pass of FOCUS_NON_NEG_MOD for one eligible stat
NonNegBody(stat, cur_stats, rv) ==
    IF cur_stats[stat] < 10
    THEN LET diff_from_10 == 10 - cur_stats[stat] + Count(rv, stat)
         IN  IF diff_from_10 >= 2
             THEN LET r1 == Append(rv, stat)
                  IN  IF Len(r1) = 1 THEN Append(r1, stat) ELSE r1
             ELSE IF diff_from_10 = 1 THEN Append(rv, stat) ELSE rv
    ELSE rv

\* First pass of FOCUS_NON_NEG_MOD: scores below 10
RECURSIVE NonNegLoop(_, _, _, _, _)
NonNegLoop(i, focus, cur_stats, opts, rv) ==
    IF i > Len(focus) THEN rv
    ELSE IF NotInOpts(focus[i], opts) \/ cur_stats[focus[i]] >= 20
         THEN NonNegLoop(i + 1, focus, cur_stats, opts, rv)
         ELSE LET r1 == NonNegBody(focus[i], cur_stats, rv)
              IN  IF Len(r1) = 2 THEN r1
                  ELSE NonNegLoop(i + 1, focus, cur_stats, opts, r1)

\* The three methods that draw no random number
choose_stats_det(method, focus, cur_stats, opts) ==
    IF method = "STRICT_FOCUS"
    THEN FocusLoop(1, focus, cur_stats, opts, <<>>)
    ELSE IF method = "FOCUS_ODD_TO_EVEN"
    THEN LET r1 == OddLoop(1, focus, cur_stats, opts, <<>>)
         IN  IF Len(r1) < 2 THEN FocusLoop(1, focus, cur_stats, opts, r1) ELSE r1
    ELSE IF method = "FOCUS_NON_NEG_MOD"
    THEN LET r1 == NonNegLoop(1, focus, cur_stats, opts, <<>>)
         IN  IF Len(r1) < 2 THEN FocusLoop(1, focus, cur_stats, opts, r1) ELSE r1
    ELSE <<>>

\* RANDOM: the test that lets the drawn stat into retval
RandomAccepts(stat, cur_stats, opts, rv) ==
    (~NotInOpts(stat, opts)) /\ cur_stats[stat] + Count(rv, stat) < 20

\* RANDOM: one turn of the while loop with `stat` the stat drawn
RandomTurn(stat, cur_stats, opts, rv) ==
    IF RandomAccepts(stat, cur_stats, opts, rv) THEN Append(rv, stat) ELSE rv

\* RANDOM: the lists the loop can leave with (none: the loop never ends)
RandomReturns(focus, cur_stats, opts) ==
    {r \in {<<a, b>> : a \in Members(focus), b \in Members(focus)} :
        /\ RandomTurn(r[1], cur_stats, opts, <<>>) = <<r[1]>>
        /\ RandomTurn(r[2], cur_stats, opts, <<r[1]>>) = r}

\* Every list choose_stats can return on these arguments
choose_stats(method, focus, cur_stats, opts) ==
    IF method = "RANDOM" THEN RandomReturns(focus, cur_stats, opts)
    ELSE {choose_stats_det(method, focus, cur_stats, opts)}

-----------------------------------------------------------------------------
(* ASIRecord.perform_asi                                                   *)

RECURSIVE perform_asi_loop(_, _, _)
perform_asi_loop(i, chosen_stats, rv) ==
    IF i > Len(chosen_stats) THEN rv
    ELSE perform_asi_loop(i + 1, chosen_stats,
                          [rv EXCEPT ![chosen_stats[i]] = @ + 1])

perform_asi(cur_stats, chosen_stats) == perform_asi_loop(1, chosen_stats, cur_stats)

\* `retval = cur_stats`: retval is the caller's dict, which gets the writes
ArgAliased(cur_stats, written) == written

\* `retval = cur_stats.copy()`: the writes to retval go to a new dict and the
\* dict bound to cur_stats stays as it was
ArgAfterCopy(cur_stats, written) == cur_stats

-----------------------------------------------------------------------------
(* util.stat_mod_from_score and the hit-point sum                          *)

\* Python's None, and an int, as one kind of value
PyNone == [is_none |-> TRUE, value |-> 0]

PyInt(n) == [is_none |-> FALSE, value |-> n]

\* type(score): the class object, written as its repr
PyType(score) == "<class 'int'>"

\* The test `type(score) == 'int'` compares the class object with a str
stat_mod_from_score(score) ==
    IF PyType(score) = "int" THEN PyInt((10 - score) \div 2) ELSE PyNone

\* int + (int or None): the sum, or TypeError
PyAdd(n, m) ==
    IF m.is_none THEN [raised |-> "TypeError", value |-> 0]
    ELSE [raised |-> "none", value |-> n + m.value]

-----------------------------------------------------------------------------
(* Bounded argument sets                                                   *)

\* Scores reach from 20 - HeadroomMax up to 20, next to two scores below 10
HeadroomMax == 2

ScoreVals == {8, 9} \cup ((20 - HeadroomMax) .. 20)

\* Stat-focus orders: permutations of the six stat names
FocusSet == { <<"Str", "Dex", "Con", "Int", "Wis", "Cha">>,
              <<"Cha", "Wis", "Int", "Con", "Dex", "Str">> }

\* stat_opts arguments: None, or an allow-list
OptsSet == { NoOpts, OptsList(<<"Str", "Dex">>), OptsList(<<"Cha">>) }

NoRace == [race |-> "", subrace |-> "None"]

\* Before self.stats is assigned
ZeroStats == [s \in Stat |-> 0]

\* Before any LevelRecord is under construction
NoRecord == [built |-> FALSE, level_class |-> "", level |-> 0,
             cur_stats |-> ZeroStats, new_stats |-> ZeroStats,
             features |-> <<>>, hp_method |-> "", asi_method |-> "",
             has_asi |-> FALSE, chosen_stats |-> <<>>, hp_increase |-> 0]

\* self.levels = {}: no class has a level yet
NoLevels == [c \in {"Fighter", "Wizard"} |-> 0]

-----------------------------------------------------------------------------
(* SpecChoose: choose_stats and perform_asi on arbitrary arguments         *)

InitChoose ==
    /\ pc = "choose"
    /\ err = "none"
    /\ stat_focus \in FocusSet
    /\ asi_select \in Members(ASISelection)
    /\ stats \in [Stat -> ScoreVals]
    /\ old_stats = stats
    /\ stat_opts \in OptsSet
    /\ retval = <<>>
    /\ stat_select = "STANDARD_ARRAY"
    /\ hp_select = "TAKE_AVG"
    /\ race = NoRace
    /\ asi_i = 0
    /\ level = 0
    /\ levels = NoLevels
    /\ level_history = <<>>
    /\ rec = NoRecord
    /\ drawn_from = {}
    /\ scores = <<>>
    /\ caller_stats = stats

ChooseFrame == <<err, stat_focus, stat_select, hp_select, asi_select, race,
                 old_stats, stat_opts, asi_i, level, levels, level_history, rec,
                 scores>>

\* choose_stats with a method that draws nothing: the whole call
ChooseDeterministic ==
    /\ pc = "choose"
    /\ asi_select # "RANDOM"
    /\ retval' = choose_stats_det(asi_select, stat_focus, stats, stat_opts)
    /\ pc' = "returned"
    /\ UNCHANGED <<ChooseFrame, stats, drawn_from, caller_stats>>

\* choose_stats with RANDOM: one turn of `while(len(retval) < 2)`
ChooseRandomTurn ==
    /\ pc = "choose"
    /\ asi_select = "RANDOM"
    /\ Len(retval) < 2
    /\ \E stat \in Members(stat_focus) :
          retval' = RandomTurn(stat, stats, stat_opts, retval)
    /\ pc' = IF Len(retval') < 2 THEN "choose" ELSE "returned"
    /\ drawn_from' = drawn_from \cup {"rng"}
    /\ UNCHANGED <<ChooseFrame, stats, caller_stats>>

\* perform_asi on the list choose_stats returned
PerformAsi ==
    /\ pc = "returned"
    /\ stats' = perform_asi(stats, retval)
    /\ caller_stats' = ArgAfterCopy(caller_stats, stats')
    /\ pc' = "applied"
    /\ UNCHANGED <<ChooseFrame, retval, drawn_from>>

NextChoose == ChooseDeterministic \/ ChooseRandomTurn \/ PerformAsi

SpecChoose == InitChoose /\ [][NextChoose]_vars

-----------------------------------------------------------------------------
(* Rule data read from data/race_data.json and data/class_data.json        *)

Bonus(str, dex, con, int, wis, cha) ==
    [s \in Stat |-> CASE s = "Str" -> str [] s = "Dex" -> dex
                       [] s = "Con" -> con [] s = "Int" -> int
                       [] s = "Wis" -> wis [] OTHER -> cha]

\* An entry without the 'ASI' key, and the three shapes of an 'ASI' object
NoGrant == [present |-> FALSE, number |-> "0", kind |-> "none",
            allowed |-> <<>>, not_allowed |-> ""]

Grant(number) == [present |-> TRUE, number |-> number, kind |-> "none",
                  allowed |-> <<>>, not_allowed |-> ""]

GrantAllowed(number, l) == [present |-> TRUE, number |-> number,
                            kind |-> "allowed", allowed |-> l,
                            not_allowed |-> ""]

GrantNotAllowed(number, stat) == [present |-> TRUE, number |-> number,
                                  kind |-> "not_allowed", allowed |-> <<>>,
                                  not_allowed |-> stat]

\* The (race, subrace) pairs of the table; subrace "None" is Python's None
RaceKeys == { [race |-> "Human", subrace |-> "None"],
              [race |-> "Human", subrace |-> "Variant"],
              [race |-> "Half-Elf", subrace |-> "None"],
              [race |-> "Shifter", subrace |-> "Swiftstride"] }

\* race_data[race] or race_data[race]['Subraces'][subrace]
RaceEntry(r) ==
    CASE r = [race |-> "Human", subrace |-> "None"] ->
            [bonus |-> Bonus(1, 1, 1, 1, 1, 1), ASI |-> NoGrant]
      [] r = [race |-> "Human", subrace |-> "Variant"] ->
            [bonus |-> Bonus(0, 0, 0, 0, 0, 0), ASI |-> Grant("2")]
      [] r = [race |-> "Half-Elf", subrace |-> "None"] ->
            [bonus |-> Bonus(0, 0, 0, 0, 0, 2),
             ASI |-> GrantNotAllowed("2", "Cha")]
      [] OTHER ->
            [bonus |-> Bonus(1, 2, 0, 0, 0, 0),
             ASI |-> GrantAllowed("2", <<"Str", "Dex">>)]

\* int(s) and str(n) on the one-digit numbers of the tables
PyIntOfStr(s) ==
    CASE s = "0" -> 0 [] s = "1" -> 1 [] s = "2" -> 2 [] s = "3" -> 3
      [] s = "4" -> 4 [] OTHER -> 5

PyStr(n) ==
    CASE n = 0 -> "0" [] n = 1 -> "1" [] n = 2 -> "2" [] n = 3 -> "3"
      [] n = 4 -> "4" [] OTHER -> "5"

Classes == {"Fighter", "Wizard"}

\* The levels of the level tables, and those a level step is asked for
MaxTableLevel == 4

StepLevels == {1, MaxTableLevel}

class_data(c) ==
    [HitDiceValue |-> IF c = "Fighter" THEN 10 ELSE 6,
     HitDiceAvg |-> IF c = "Fighter" THEN 6 ELSE 4,
     LevelTable |->
        [k \in {PyStr(n) : n \in 1 .. MaxTableLevel} |->
            [Features |->
                IF k = "4" THEN <<"Ability Score Improvement">>
                ELSE IF k = "1" THEN <<"Hit Dice", "Proficiencies">>
                ELSE <<"Class Feature">>]]]

-----------------------------------------------------------------------------
(* Character.__init__: score generation                                    *)

\* The runs of rng.randint(1,6) values one construction is let to see
NumDiceRuns == 3

\* The p-th die of run k: run 1 is all sixes, run 2 counts 1..6 round and
\* round, run 3 shows 2, 4, 6, ...
Die(k, p) == 1 + ((5 + (k - 1) * p) % 6)

RECURSIVE Sum(_)
Sum(seq) == IF seq = <<>> THEN 0 ELSE Head(seq) + Sum(Tail(seq))

\* Insert into a list sorted in descending order, after its equals
RECURSIVE InsertDesc(_, _)
InsertDesc(x, seq) ==
    IF seq = <<>> THEN <<x>>
    ELSE IF x > Head(seq) THEN <<x>> \o seq
    ELSE <<Head(seq)>> \o InsertDesc(x, Tail(seq))

\* The list as it is, without the sort
Unsorted(seq) == seq

\* sorted(seq, reverse=True)
RECURSIVE SortedDesc(_)
SortedDesc(seq) ==
    IF seq = <<>> THEN <<>>
    ELSE InsertDesc(seq[Len(seq)], SortedDesc(SubSeq(seq, 1, Len(seq) - 1)))

\* list.pop(): the list without its last element
Pop(seq) == SubSeq(seq, 1, Len(seq) - 1)

\* scores of ROLL_4D6_DROP_ONE under run k: four dice each, lowest dropped
Roll4d6DropOne(k) ==
    [i \in 1 .. 6 |->
        Sum(Pop(SortedDesc([j \in 1 .. 4 |-> Die(k, 4 * (i - 1) + j)])))]

\* scores of ROLL_3D6 under run k: three dice each
Roll3d6(k) ==
    [i \in 1 .. 6 |->
        Die(k, 3 * (i - 1) + 1) + Die(k, 3 * (i - 1) + 2) + Die(k, 3 * (i - 1) + 3)]

StandardArray == <<15, 14, 13, 12, 10, 8>>

\* The lists `scores` one of the three plain strategies can build
ScoresOf(choice) ==
    IF choice = "ROLL_4D6_DROP_ONE"
    THEN {Roll4d6DropOne(k) : k \in 1 .. NumDiceRuns}
    ELSE IF choice = "ROLL_3D6" THEN {Roll3d6(k) : k \in 1 .. NumDiceRuns}
    ELSE {StandardArray}

\* The lists `scores` the configured strategy can build
GeneratedScores(select) ==
    IF select \in {"ROLL_4D6_DROP_ONE", "ROLL_3D6", "STANDARD_ARRAY"}
    THEN ScoresOf(select)
    ELSE UNION {ScoresOf(choice) : choice \in Members(StatSelection)}

\* The orders rng.shuffle is let to leave a six-element list in
ShuffleSet == { <<6, 5, 4, 3, 2, 1>>, <<2, 3, 1, 5, 6, 4>> }

\* Six draws of one and the same element instead of a reordering
ShuffledWithRepeats(seq, p) == [i \in DOMAIN seq |-> seq[p[1]]]

Shuffled(seq, p) == [i \in DOMAIN seq |-> seq[p[i]]]

\* dict(zip(keys, vals)): a later pair overrides an earlier one
Zip(keys, vals) ==
    [s \in Stat |->
        LET ix == {i \in DOMAIN keys : i <= Len(vals) /\ keys[i] = s}
        IN  IF ix = {} THEN 0
            ELSE vals[CHOOSE i \in ix : \A j \in ix : j <= i]]

\* self.stats after the scores are assigned to the stat names
AssignedStats(select, focus, the_scores) ==
    IF select = "RANDOM"
    THEN { Zip(Shuffled(stat_names, p), Shuffled(the_scores, q)) :
             p \in ShuffleSet, q \in ShuffleSet }
    ELSE { Zip(focus, SortedDesc(the_scores)) }

\* self.stats[stat] += the racial bonus, for stat in stat_focus
RECURSIVE WithBonus(_, _, _, _)
WithBonus(i, focus, st, bonus) ==
    IF i > Len(focus) THEN st
    ELSE WithBonus(i + 1, focus,
                   [st EXCEPT ![focus[i]] = @ + bonus[focus[i]]], bonus)

\* range(int(race_data[...]['ASI']['number'])): the number of racial ASI turns
RacialTurns(r) ==
    IF RaceEntry(r).ASI.present THEN PyIntOfStr(RaceEntry(r).ASI.number) ELSE 0

\* The `stats` handed to choose_stats as stat_opts by the racial ASI loop
RacialOpts(r) ==
    LET asi == RaceEntry(r).ASI
    IN  IF asi.kind = "allowed" THEN OptsList(asi.allowed)
        ELSE IF asi.kind = "not_allowed" THEN OptsList(stat_names)
        ELSE NoOpts

-----------------------------------------------------------------------------
(* Spec: one Character, from construction through its level steps          *)

\* Level steps stop at this total level
MaxLevel == 3

\* The arguments of Character(...), before __init__ has run
Init ==
    /\ pc = "new"
    /\ err = "none"
    /\ race \in RaceKeys
    /\ stat_focus \in FocusSet
    /\ stat_select \in Members(StatSelection)
    /\ hp_select \in Members(HPSelection)
    /\ asi_select \in Members(ASISelection)
    /\ stats = ZeroStats
    /\ old_stats = ZeroStats
    /\ stat_opts = NoOpts
    /\ retval = <<>>
    /\ asi_i = 0
    /\ level = 0
    /\ levels = NoLevels
    /\ level_history = <<>>
    /\ rec = NoRecord
    /\ drawn_from = {}
    /\ scores = <<>>
    /\ caller_stats = ZeroStats

Config == <<stat_focus, stat_select, hp_select, asi_select, race>>

\* Character.__init__ up to the racial ASI loop: the scores are generated,
\* assigned to the stat names and raised by the racial bonuses
Construct ==
    /\ pc = "new"
    /\ \E the_scores \in GeneratedScores(stat_select) :
          \E st \in AssignedStats(stat_select, stat_focus, the_scores) :
             stats' = WithBonus(1, stat_focus, st, RaceEntry(race).bonus)
    /\ pc' = IF RacialTurns(race) > 0 THEN "racial_asi" ELSE "ready"
    /\ drawn_from' = IF stat_select = "STANDARD_ARRAY" THEN drawn_from
                     ELSE drawn_from \cup {"self.rng"}
    /\ UNCHANGED <<Config, err, old_stats, stat_opts, retval, asi_i, level,
                   levels, level_history, rec, scores, caller_stats>>

\* Character.__init__: one turn of the racial ASI loop (choose_stats on
\* self.rng, choices.pop(), perform_asi)
RacialAsiTurn ==
    /\ pc = "racial_asi"
    /\ LET opts == RacialOpts(race)
           returns == choose_stats(asi_select, stat_focus, stats, opts)
       IN  /\ stat_opts' = opts
           /\ old_stats' = stats
           /\ drawn_from' = IF asi_select = "RANDOM"
                            THEN drawn_from \cup {"self.rng"} ELSE drawn_from
           /\ IF returns = {}
              THEN /\ pc' = "hung"
                   /\ UNCHANGED <<stats, retval, asi_i, err>>
              ELSE \E choices \in returns :
                     IF choices = <<>>
                     THEN /\ err' = "IndexError"
                          /\ pc' = "raised"
                          /\ retval' = choices
                          /\ UNCHANGED <<stats, asi_i>>
                     ELSE /\ retval' = Pop(choices)
                          /\ stats' = perform_asi(stats, retval')
                          /\ asi_i' = asi_i + 1
                          /\ pc' = IF asi_i' < RacialTurns(race)
                                   THEN "racial_asi" ELSE "ready"
                          /\ err' = err
    /\ UNCHANGED <<Config, level, levels, level_history, rec, scores,
                   caller_stats>>

\* LevelRecord.__init__: the hit-point increases the strategy can give
HpIncreases(hp_method, c, cur_stats) ==
    LET mod == stat_mod_from_score(cur_stats["Con"])
        roll == { PyAdd(n, mod) : n \in 1 .. class_data(c).HitDiceValue }
        avg == { PyAdd(class_data(c).HitDiceAvg, mod) }
    IN  IF hp_method = "ROLL_HP" THEN roll
        ELSE IF hp_method = "TAKE_AVG" THEN avg
        ELSE UNION { IF rand_choice = "ROLL_HP" THEN roll ELSE avg :
                       rand_choice \in Members(HPSelection) }

\* LevelRecord.__init__: the record built for (c, lvl) from the scores `st`
\* when the ASI picks `chosen` and the hit-point sum comes out as `hp`
BuildRecord(c, lvl, st, chosen, hp) ==
    LET features == class_data(c).LevelTable[PyStr(lvl)].Features
        has_asi == "Ability Score Improvement" \in Members(features)
    IN  [built |-> TRUE, level_class |-> c, level |-> lvl,
         cur_stats |-> st,
         new_stats |-> IF has_asi THEN perform_asi(st, chosen) ELSE st,
         features |-> features, hp_method |-> hp_select,
         asi_method |-> asi_select, has_asi |-> has_asi,
         chosen_stats |-> chosen, hp_increase |-> hp.value]

\* The features of level lvl of class c
Features(c, lvl) == class_data(c).LevelTable[PyStr(lvl)].Features

HasAsi(c, lvl) == "Ability Score Improvement" \in Members(Features(c, lvl))

\* LevelRecord(c, lvl, st, hp_select, asi_select, stat_focus, rng): what the
\* constructor can come to. The ASI comes first, on ASIRecord's default
\* stream (no rng is handed on); the hit points follow on the rng given.
\* "hung" is the RANDOM loop of choose_stats never ending, an exception
\* leaves no record.
LevelRecord(c, lvl, st) ==
    LET returns == IF HasAsi(c, lvl)
                   THEN choose_stats(asi_select, stat_focus, st, NoOpts)
                   ELSE {<<>>}
        asi_draws == IF HasAsi(c, lvl) /\ asi_select = "RANDOM"
                     THEN {"default"} ELSE {}
        hp_draws == IF hp_select = "TAKE_AVG" THEN {} ELSE {"self.rng"}
    IN  IF returns = {}
        THEN { [outcome |-> "hung", record |-> NoRecord, draws |-> asi_draws] }
        ELSE { [outcome |-> IF hp.raised # "none" THEN hp.raised ELSE "built",
                record |-> IF hp.raised # "none" THEN NoRecord
                           ELSE BuildRecord(c, lvl, st, chosen, hp),
                draws |-> asi_draws \cup hp_draws] :
               chosen \in returns, hp \in HpIncreases(hp_select, c, st) }

\* A level step advance(character, c, lvl): LevelRecord is constructed from
\* the character's scores with the character's rng. A record that comes back
\* is appended to the history and the counters and scores are updated; an
\* exception or a hang leaves the character as it was.
LevelUp(c, lvl) ==
    /\ pc = "ready"
    /\ level < MaxLevel
    /\ \E out \in LevelRecord(c, lvl, stats) :
          /\ drawn_from' = drawn_from \cup out.draws
          /\ IF out.outcome = "hung"
             THEN /\ pc' = "hung"
                  /\ UNCHANGED <<err, rec, stats, level, levels, level_history>>
             ELSE IF out.outcome # "built"
             THEN /\ err' = out.outcome
                  /\ pc' = "raised"
                  /\ UNCHANGED <<rec, stats, level, levels, level_history>>
             ELSE /\ rec' = out.record
                  /\ level_history' = Append(level_history, rec')
                  /\ level' = level + 1
                  /\ levels' = [levels EXCEPT ![c] = @ + 1]
                  /\ stats' = rec'.new_stats
                  /\ pc' = "ready"
                  /\ err' = err
    /\ UNCHANGED <<Config, old_stats, stat_opts, retval, asi_i, scores,
                   caller_stats>>

LevelStep == \E c \in Classes, lvl \in StepLevels : LevelUp(c, lvl)

Next == Construct \/ RacialAsiTurn \/ LevelStep

Spec == Init /\ [][Next]_vars

-----------------------------------------------------------------------------
(* SpecGen: Character.__init__ up to the racial bonuses, stage by stage     *)

GenFrame == <<Config, err, old_stats, stat_opts, retval, asi_i, level, levels,
              level_history, rec, caller_stats>>

\* `scores = []` up to the end of the strategy branches
GenerateScores ==
    /\ pc = "new"
    /\ scores' \in GeneratedScores(stat_select)
    /\ pc' = "generated"
    /\ drawn_from' = IF stat_select = "STANDARD_ARRAY" THEN drawn_from
                     ELSE drawn_from \cup {"self.rng"}
    /\ UNCHANGED <<GenFrame, stats>>

\* `# Now assign scores to stats`: RANDOM shuffles a fresh list of the stat
\* names and, in place, the scores; every other strategy zips stat_focus with
\* a sorted copy
AssignScores ==
    /\ pc = "generated"
    /\ IF stat_select = "RANDOM"
       THEN \E p \in ShuffleSet, q \in ShuffleSet :
               /\ scores' = Shuffled(scores, q)
               /\ stats' = Zip(Shuffled(stat_names, p), scores')
       ELSE /\ scores' = scores
            /\ stats' = Zip(stat_focus, SortedDesc(scores))
    /\ pc' = "assigned"
    /\ UNCHANGED <<GenFrame, drawn_from>>

\* `# Now apply racial bonuses`
ApplyRacialBonus ==
    /\ pc = "assigned"
    /\ old_stats' = stats
    /\ stats' = WithBonus(1, stat_focus, stats, RaceEntry(race).bonus)
    /\ pc' = IF RacialTurns(race) > 0 THEN "racial_asi" ELSE "ready"
    /\ UNCHANGED <<Config, err, stat_opts, retval, asi_i, level, levels,
                   level_history, rec, drawn_from, scores, caller_stats>>

NextGen == GenerateScores \/ AssignScores \/ ApplyRacialBonus

SpecGen == Init /\ [][NextGen]_vars

-----------------------------------------------------------------------------
(* Claims about choose_stats and perform_asi (SpecChoose)                  *)

Min(a, b) == IF a < b THEN a ELSE b

\* The stat may be improved under the allow-list of the call
InAllowList(stat) == stat_opts.is_none \/ stat \in Members(stat_opts.list)

\* Points of headroom to 20 over the stats the allow-list lets in
RECURSIVE HeadroomFrom(_, _)
HeadroomFrom(i, cur_stats) ==
    IF i > Len(stat_names) THEN 0
    ELSE (IF InAllowList(stat_names[i]) /\ cur_stats[stat_names[i]] < 20
          THEN 20 - cur_stats[stat_names[i]] ELSE 0)
         + HeadroomFrom(i + 1, cur_stats)

Headroom == HeadroomFrom(1, old_stats)

\* C1: for every method, the list choose_stats returns never takes a score
\* above 20: each score plus the occurrences of its stat in the list is at
\* most 20, and so is every score after perform_asi.
C1_NeverAbove20 ==
    /\ pc = "returned" => \A s \in Stat : old_stats[s] + Count(retval, s) <= 20
    /\ pc = "applied" => \A s \in Stat : stats[s] <= 20

\* C6: for the three methods that draw nothing, the number of entries
\* returned is min(2, H), H the headroom to 20 summed over the eligible stats.
C6_TwoPointsUnlessShort ==
    (pc = "returned" /\ asi_select # "RANDOM") => Len(retval) = Min(2, Headroom)

\* C7: whenever choose_stats returns, it returns at most two stat names, each
\* in the allow-list when one is given and each with a current score below 20.
C7_AtMostTwoEligible ==
    pc \in {"returned", "applied"} =>
        /\ Len(retval) <= 2
        /\ \A i \in DOMAIN retval :
              /\ retval[i] \in Stat
              /\ InAllowList(retval[i])
              /\ old_stats[retval[i]] < 20

\* C7 witness: a call with an allow-list that leaves the first stat of the
\* focus order out and holds a stat already at 20, returning two entries.
C7_Witness ==
    /\ pc = "returned"
    /\ ~stat_opts.is_none
    /\ ~InAllowList(stat_focus[1])
    /\ old_stats[stat_focus[1]] < 20
    /\ \E s \in Members(stat_opts.list) : old_stats[s] = 20
    /\ Len(retval) = 2

\* C10: the RANDOM loop always ends: in every state of the loop either some
\* draw is accepted, so that the loop moves on, or a failure is reported.
C10_RandomTerminates ==
    (pc = "choose" /\ asi_select = "RANDOM") =>
        \/ \E stat \in Members(stat_focus) :
              RandomAccepts(stat, stats, stat_opts, retval)
        \/ err # "none"

-----------------------------------------------------------------------------
(* Claims about the life of a Character (Spec)                             *)

\* C2: every random draw made on behalf of the character comes from its own
\* seeded stream self.rng, so that the same seed replays the same scores,
\* level records and hit-point increases; none comes from a default stream.
C2_OwnStreamOnly == drawn_from \subseteq {"self.rng"}

\* C3: each level step builds one LevelRecord, appends it at the end of the
\* history, raises the total level and the class's level counter by one and
\* sets the current scores to the record's scores-after; no step changes or
\* removes an entry already in the history.
C3_LevelStepAppends ==
    [][ /\ Len(level_history') >= Len(level_history)
        /\ SubSeq(level_history', 1, Len(level_history)) = level_history
        /\ \A c \in Classes, lvl \in StepLevels :
              (LevelUp(c, lvl) /\ pc' # "hung") =>
                 /\ rec'.built
                 /\ rec'.level_class = c /\ rec'.level = lvl
                 /\ level_history' = Append(level_history, rec')
                 /\ level' = level + 1
                 /\ levels' = [levels EXCEPT ![c] = @ + 1]
                 /\ stats' = rec'.new_stats ]_vars

\* The base of the hit-point increase: HitDiceAvg, or a roll of the hit die
HpBases(hp_method, c) ==
    (IF hp_method # "ROLL_HP" THEN {class_data(c).HitDiceAvg} ELSE {})
    \cup (IF hp_method # "TAKE_AVG" THEN 1 .. class_data(c).HitDiceValue ELSE {})

\* C4: a level step ends with an integer hit-point increase equal to the
\* base (HitDiceAvg, or a roll in 1..HitDiceValue) plus
\* floor((10 - Con) / 2), and never fails while computing it.
C4_HpIncrease ==
    [][ \A c \in Classes, lvl \in StepLevels :
          (LevelUp(c, lvl) /\ pc' # "hung") =>
             /\ err' = "none"
             /\ rec'.built
             /\ \E base \in HpBases(hp_select, c) :
                \E con \in {rec'.cur_stats["Con"], rec'.new_stats["Con"]} :
                   rec'.hp_increase = base + ((10 - con) \div 2) ]_vars

\* C5: a level step to a level whose features hold "Ability Score
\* Improvement" gives a LevelRecord that carries an ASI record and whose
\* scores-after differ from its scores-before.
C5_AsiAlwaysChangesScores ==
    [][ \A c \in Classes, lvl \in StepLevels :
          (LevelUp(c, lvl) /\ HasAsi(c, lvl) /\ pc' # "hung") =>
             /\ rec'.built
             /\ rec'.has_asi
             /\ rec'.cur_stats = stats
             /\ rec'.new_stats # rec'.cur_stats ]_vars

\* The stats a racial ASI grant lets in: its allow-list, or all but the one
\* stat of its deny-list
GrantEligible(r) ==
    LET asi == RaceEntry(r).ASI
    IN  IF asi.kind = "allowed" THEN Members(asi.allowed)
        ELSE IF asi.kind = "not_allowed" THEN Stat \ {asi.not_allowed}
        ELSE Stat

\* C8: whenever some eligible stat is below 20, a turn of the racial ASI
\* loop (one in which choose_stats returns) ends without error and raises
\* exactly one score by exactly 1: the first stat of the selection
\* choose_stats made.
C8_RacialTurnOnePoint ==
    [][ ( /\ RacialAsiTurn
          /\ pc' # "hung"
          /\ \E s \in GrantEligible(race) : stats[s] < 20 ) =>
           /\ pc' \in {"racial_asi", "ready"}
           /\ err' = "none"
           /\ Len(retval') >= 1
           /\ stats' = [stats EXCEPT ![retval'[1]] = @ + 1] ]_vars

\* C9: a turn of the racial ASI loop never raises the stat a deny-list
\* names, and under an allow-list raises allow-listed stats only.
C9_RacialRestriction ==
    [][ RacialAsiTurn =>
           \A s \in Stat \ GrantEligible(race) : stats'[s] <= stats[s] ]_vars


\* The level step's ASI raises Constitution whatever choose_stats returns
AsiRaisesCon ==
    /\ choose_stats(asi_select, stat_focus, stats, NoOpts) # {}
    /\ \A chosen \in choose_stats(asi_select, stat_focus, stats, NoOpts) :
          "Con" \in Members(chosen)

\* C11: in a level step whose ASI raises Constitution the hit-point increase
\* is the base plus the modifier of the Constitution score after the ASI
\* (the record's scores-after), under ROLL_HP and under TAKE_AVG.
C11_HpUsesConAfterAsi ==
    [][ \A c \in Classes, lvl \in StepLevels :
          ( /\ LevelUp(c, lvl)
            /\ HasAsi(c, lvl)
            /\ AsiRaisesCon
            /\ hp_select \in {"ROLL_HP", "TAKE_AVG"} ) =>
             /\ rec'.built
             /\ rec'.new_stats["Con"] > rec'.cur_stats["Con"]
             /\ \E base \in HpBases(hp_select, c) :
                   rec'.hp_increase =
                      base + ((10 - rec'.new_stats["Con"]) \div 2) ]_vars


-----------------------------------------------------------------------------
(* Claims about score generation (SpecGen)                                 *)

\* C12: generation yields exactly six scores and assigns them to the six
\* stat names one to one: before the racial bonuses the values of the stats
\* mapping are, as a multiset, the six generated scores.
C12_SixScoresAssigned ==
    /\ pc \in {"generated", "assigned"} => Len(scores) = 6
    /\ pc = "assigned" =>
          /\ DOMAIN stats = Stat
          /\ \A v \in 0 .. 20 :
                Cardinality({s \in Stat : stats[s] = v}) = Count(scores, v)

\* Reached: RANDOM assignment of dice that are not all alike
C12_Witness ==
    /\ pc = "assigned"
    /\ stat_select = "RANDOM"
    /\ \E i \in 1 .. 5 : scores[i] # scores[i + 1]
    /\ \E i \in 1 .. 6 : stats[stat_focus[i]] # scores[i]

\* C13: for every strategy but RANDOM the scores before the racial bonuses
\* descend along stat_focus; with STANDARD_ARRAY the stats of stat_focus get
\* 15, 14, 13, 12, 10, 8 in that order.
C13_SortedByFocus ==
    (pc = "assigned" /\ stat_select # "RANDOM") =>
        /\ \A i \in 1 .. 5 :
              stats[stat_focus[i]] >= stats[stat_focus[i + 1]]
        /\ stat_select = "STANDARD_ARRAY" =>
              \A i \in 1 .. 6 :
                 stats[stat_focus[i]] = <<15, 14, 13, 12, 10, 8>>[i]

\* Reached: dice that came out of order, assigned along a stat_focus that is
\* not the order of stat_names
C13_Witness ==
    /\ pc = "assigned"
    /\ stat_select \in {"ROLL_3D6", "ROLL_4D6_DROP_ONE"}
    /\ \E i \in 1 .. 5 : scores[i] < scores[i + 1]
    /\ stat_focus # stat_names
    /\ stats[stat_focus[1]] > stats[stat_focus[6]]


-----------------------------------------------------------------------------
(* Claims about the arguments of choose_stats and perform_asi (SpecChoose)  *)

\* C14: choose_stats and perform_asi leave the score mapping they are given
\* as it was, and perform_asi returns a mapping in which each stat is its
\* input score plus the number of its occurrences in chosen_stats.
C14_ArgumentUntouched ==
    /\ pc \in {"choose", "returned", "applied"} => caller_stats = old_stats
    /\ pc = "applied" =>
          \A s \in Stat : stats[s] = old_stats[s] + Count(retval, s)

\* Reached: perform_asi has returned a mapping that differs from its argument
C14_Witness ==
    /\ pc = "applied"
    /\ Len(retval) = 2
    /\ stats # caller_stats


-----------------------------------------------------------------------------
(* Reference selections for STRICT_FOCUS and FOCUS_ODD_TO_EVEN (SpecChoose) *)

\* Positions of stat_focus whose stat is allow-listed and was below 20
EligIdx ==
    {i \in DOMAIN stat_focus :
        InAllowList(stat_focus[i]) /\ old_stats[stat_focus[i]] < 20}

MinIdx(I) == CHOOSE i \in I : \A j \in I : i <= j

\* The reference selection of STRICT_FOCUS
RefStrictFocus ==
    IF EligIdx = {} THEN <<>>
    ELSE LET i == MinIdx(EligIdx)
             s == stat_focus[i]
             later == {j \in EligIdx : j > i}
         IN  IF 20 - old_stats[s] >= 2 THEN <<s, s>>
             ELSE IF later = {} THEN <<s>>
             ELSE <<s, stat_focus[MinIdx(later)]>>

\* C15: under STRICT_FOCUS choose_stats returns the reference selection:
\* [] if no eligible stat is below 20, [s, s] if the first such stat s has
\* two points of headroom, else [s, t] with t the next such stat, or [s] if
\* there is none; no eligible stat earlier in focus order than a chosen one
\* is left with unused headroom.
C15_StrictFocusReference ==
    (pc = "returned" /\ asi_select = "STRICT_FOCUS") =>
        /\ retval = RefStrictFocus
        /\ \A i \in DOMAIN stat_focus :
              stat_focus[i] \in Members(retval) =>
                 \A j \in EligIdx :
                    j < i => old_stats[stat_focus[j]]
                               + Count(retval, stat_focus[j]) = 20

\* Reached: the first eligible stat takes one point, the next one the other,
\* under an allow-list
C15_Witness ==
    /\ pc = "returned"
    /\ asi_select = "STRICT_FOCUS"
    /\ ~stat_opts.is_none
    /\ Len(retval) = 2
    /\ retval[1] # retval[2]
    /\ old_stats[retval[1]] = 19

\* Positions of the eligible stats whose score was odd
OddIdx == {i \in EligIdx : old_stats[stat_focus[i]] % 2 = 1}

\* The first pass of the reference: the first min(2, |OddIdx|) odd stats
RefOddPass ==
    IF OddIdx = {} THEN <<>>
    ELSE LET i == MinIdx(OddIdx)
             later == {j \in OddIdx : j > i}
         IN  IF later = {} THEN <<stat_focus[i]>>
             ELSE <<stat_focus[i], stat_focus[MinIdx(later)]>>

\* The fill of the reference: focus order from position i on, headroom =
\* 20 - current - already-queued increments, two points at once only into an
\* empty queue
RECURSIVE RefFill(_, _)
RefFill(i, q) ==
    IF Len(q) >= 2 \/ i > Len(stat_focus) THEN q
    ELSE LET s == stat_focus[i]
             headroom == 20 - old_stats[s] - Count(q, s)
         IN  IF (~InAllowList(s)) \/ headroom <= 0 THEN RefFill(i + 1, q)
             ELSE IF headroom >= 2 /\ q = <<>> THEN <<s, s>>
             ELSE RefFill(i + 1, Append(q, s))

\* C16: under FOCUS_ODD_TO_EVEN the eligible odd stats below 20 come first,
\* one point each in focus order (at most two); what is left of the two
\* points is filled in focus order with headroom 20 - current -
\* already-queued increments, so that a stat queued at 19 is not queued again.
C16_OddToEvenReference ==
    (pc = "returned" /\ asi_select = "FOCUS_ODD_TO_EVEN") =>
        retval = RefFill(1, RefOddPass)

====
